---- MODULE Spec2Model ----
(***************************************************************************)
(* Model of pr_to_copilot.py: the identifier parser (parse_pr_url), the    *)
(* fetchers (run_gh_command, run_gh_api), the comment extractor            *)
(* (extract_pr_comments), the prompt formatter (format_prompt) and the     *)
(* orchestrator (main).                                                    *)
(*                                                                         *)
(* Representation.  A Python str is a sequence of one-character strings,   *)
(* so that isdigit, strip, re.search and concatenation are computed on     *)
(* characters.  An optional value is a sequence of length at most one:     *)
(* None is << >> and a present value v is << v >>.  A Python mapping is a  *)
(* TLA+ record; the empty mapping {} is the function with empty domain.    *)
(***************************************************************************)
EXTENDS Integers, Sequences, FiniteSets, TLC

VARIABLES
    pc,           \* position of main: "start", "resolve", "extract", "save", "copy", "open", "summary", "exit"
    input,        \* args.input
    args,         \* the parsed command line (argparse namespace)
    parsed_repo,  \* main's parsed_repo
    pr_number,    \* main's pr_number
    review_id,    \* main's review_id
    repo,         \* main's repo
    fetched,      \* what the external tool answered to the comment fetches of this run
    comments,     \* main's comments
    prompt,       \* main's prompt, as a sequence of rendered segments
    output_file,  \* main's output_file
    files,        \* the files written in the working directory
    exit_code,    \* the exit status of the process, NoneV while it runs
    raised,       \* the exception that ended the run, "none" when there is none
    all_files,    \* main's all_files
    events        \* the external steps attempted so far, in order

vars == <<pc, input, args, parsed_repo, pr_number, review_id, repo, fetched,
          comments, prompt, output_file, files, exit_code, raised, all_files, events>>

----------------------------------------------------------------------------
(* Python values *)

NoneV == << >>

Some(v) == << v >>

EmptyMap == [k \in {} |-> 0]

\* bool(o) for an optional str: None and "" are falsy
Truthy(o) == o # NoneV /\ o[1] # << >>

\* bool(o) for an optional int: None and 0 are falsy
TruthyInt(o) == o # NoneV /\ o[1] # 0

\* a or b
Or(a, b) == IF Truthy(a) THEN a ELSE b

\* m.get(k, d) on a mapping
Get(m, k, d) == IF k \in DOMAIN m THEN m[k] ELSE d

Digits == {"0", "1", "2", "3", "4", "5", "6", "7", "8", "9"}

Whitespace == {" ", "\t", "\n"}

\* str.isdigit(): non-empty and every character a digit
IsDigit(s) == Len(s) > 0 /\ \A i \in 1..Len(s) : s[i] \in Digits

RECURSIVE LStrip(_)
LStrip(s) == IF s # << >> /\ Head(s) \in Whitespace THEN LStrip(Tail(s)) ELSE s

RECURSIVE RStrip(_)
RStrip(s) ==
    IF s # << >> /\ s[Len(s)] \in Whitespace THEN RStrip(SubSeq(s, 1, Len(s) - 1)) ELSE s

\* str.strip()
Strip(s) == RStrip(LStrip(s))

\* s[i:].startswith(p), i counted from 1
MatchesAt(s, i, p) == i + Len(p) - 1 <= Len(s) /\ SubSeq(s, i, i + Len(p) - 1) = p

\* the least index >= i of s holding a character of the set cs, Len(s)+1 if none
RECURSIVE ScanTo(_, _, _)
ScanTo(s, i, cs) == IF i > Len(s) \/ s[i] \in cs THEN i ELSE ScanTo(s, i + 1, cs)

\* the index after the longest run of digits of s starting at i (greedy \d+)
RECURSIVE DigitsEnd(_, _)
DigitsEnd(s, i) == IF i > Len(s) \/ s[i] \notin Digits THEN i ELSE DigitsEnd(s, i + 1)

----------------------------------------------------------------------------
(* parse_pr_url *)

HTTPS_GITHUB == <<"h","t","t","p","s",":","/","/","g","i","t","h","u","b",".","c","o","m","/">>

PULL == <<"/","p","u","l","l","/">>

REVIEW_PREFIX == <<"p","u","l","l","r","e","q","u","e","s","t","r","e","v","i","e","w","-">>

\* re.match of url_pattern at position i of s: the groups, or NoneV.
\* [^/]+ cannot cross a slash, so each segment ends at the next slash.
UrlMatchAt(s, i) ==
    IF ~MatchesAt(s, i, HTTPS_GITHUB) THEN NoneV
    ELSE LET a  == i + Len(HTTPS_GITHUB)
             e1 == ScanTo(s, a, {"/"})
             b  == e1 + 1
             e2 == ScanTo(s, b, {"/"})
             d  == e2 + Len(PULL)
             de == DigitsEnd(s, d)
         IN  IF e1 > a /\ e1 <= Len(s) /\ e2 > b /\ e2 <= Len(s)
                /\ MatchesAt(s, e2, PULL) /\ de > d
             THEN Some([repo |-> SubSeq(s, a, e2 - 1), number |-> SubSeq(s, d, de - 1)])
             ELSE NoneV

\* re.search(url_pattern, s): the leftmost match from position i on
RECURSIVE UrlSearchFrom(_, _)
UrlSearchFrom(s, i) ==
    IF i > Len(s) THEN NoneV
    ELSE IF UrlMatchAt(s, i) # NoneV THEN UrlMatchAt(s, i)
    ELSE UrlSearchFrom(s, i + 1)

\* faulty variant: the URL pattern is matched at the start of the input only
UrlSearchAnchored(s) == UrlMatchAt(s, 1)

UrlSearch(s) == UrlSearchFrom(s, 1)

\* re.match of review_pattern at position i of s: group 1, or NoneV
ReviewMatchAt(s, i) ==
    LET d  == i + Len(REVIEW_PREFIX)
        de == DigitsEnd(s, d)
    IN  IF MatchesAt(s, i, REVIEW_PREFIX) /\ de > d THEN Some(SubSeq(s, d, de - 1)) ELSE NoneV

RECURSIVE ReviewSearchFrom(_, _)
ReviewSearchFrom(s, i) ==
    IF i > Len(s) THEN NoneV
    ELSE IF ReviewMatchAt(s, i) # NoneV THEN ReviewMatchAt(s, i)
    ELSE ReviewSearchFrom(s, i + 1)

ReviewSearch(s) == ReviewSearchFrom(s, 1)

\* parse_pr_url(input_str): the returned triple, or the ValueError it raises
parse_pr_url(input_str) ==
    IF IsDigit(input_str)
    THEN [raised |-> "none", repo |-> NoneV, pr_number |-> Some(input_str), review_id |-> NoneV]
    ELSE IF UrlSearch(input_str) # NoneV
    THEN [raised |-> "none", repo |-> Some(UrlSearch(input_str)[1].repo),
          pr_number |-> Some(UrlSearch(input_str)[1].number),
          review_id |-> ReviewSearch(input_str)]
    ELSE [raised |-> "ValueError", repo |-> NoneV, pr_number |-> NoneV, review_id |-> NoneV]

----------------------------------------------------------------------------
(* run_gh_command, run_gh_api *)

\* What subprocess.run observes of the external command: the exit status and
\* stdout, which is blank, text that is not JSON, or the JSON text of a value.
CmdFail == [exit |-> 1, stdout |-> [kind |-> "blank", value |-> EmptyMap]]

CmdBlank == [exit |-> 0, stdout |-> [kind |-> "blank", value |-> EmptyMap]]

CmdGarbage == [exit |-> 0, stdout |-> [kind |-> "garbage", value |-> EmptyMap]]

CmdJson(v) == [exit |-> 0, stdout |-> [kind |-> "json", value |-> v]]

\* json.loads(stdout): the value, or the JSONDecodeError (a ValueError) it raises
json_loads(stdout) ==
    IF stdout.kind = "json" THEN [raised |-> "none", value |-> stdout.value]
    ELSE [raised |-> "JSONDecodeError", value |-> EmptyMap]

\* run_gh_command(cmd), given what the command did: check=True turns a non-zero
\* exit into CalledProcessError, the only exception the function catches
run_gh_command(out) ==
    IF out.exit # 0 THEN [raised |-> "none", value |-> EmptyMap]
    ELSE IF out.stdout.kind = "blank" THEN [raised |-> "none", value |-> EmptyMap]
    ELSE json_loads(out.stdout)

\* run_gh_api(endpoint), given what the command did
run_gh_api(out) ==
    IF out.exit # 0 THEN [raised |-> "none", value |-> EmptyMap]
    ELSE IF out.stdout.kind = "blank" THEN [raised |-> "none", value |-> EmptyMap]
    ELSE json_loads(out.stdout)

----------------------------------------------------------------------------
(* extract_pr_comments *)

\* lines 69-78
SpecificReviewRecord(review_data, rid) ==
    [type |-> "Specific Review", author |-> review_data.user.login,
     content |-> review_data.body, state |-> review_data.state,
     file |-> NoneV, line |-> NoneV, review_id |-> rid]

\* lines 84-92
ReviewInlineRecord(comment, rid) ==
    [type |-> "Inline Comment", author |-> comment.user.login, content |-> comment.body,
     file |-> Get(comment, "path", NoneV),
     line |-> IF TruthyInt(Get(comment, "line", NoneV)) THEN comment.line
              ELSE Get(comment, "original_line", NoneV),
     diff_side |-> Get(comment, "side", NoneV), review_id |-> rid]

\* lines 83-92: the loop over review_comments
RECURSIVE AppendReviewInline(_, _, _)
AppendReviewInline(cs, review_comments, rid) ==
    IF Len(review_comments) = 0 THEN cs
    ELSE AppendReviewInline(Append(cs, ReviewInlineRecord(Head(review_comments), rid)),
                            Tail(review_comments), rid)

\* lines 99-106
DescriptionRecord(pr_data) ==
    [type |-> "PR Description", author |-> pr_data.author.login,
     content |-> <<"*", "*">> \o pr_data.title \o <<"*", "*", "\n", "\n">> \o pr_data.body,
     file |-> NoneV, line |-> NoneV]

\* lines 114-122
ReviewRecord(review) ==
    [type |-> "Review", author |-> review.author.login, content |-> review.body,
     state |-> review.state, file |-> NoneV, line |-> NoneV,
     review_id |-> Get(review, "id", NoneV)]

\* lines 130-136
GeneralRecord(comment) ==
    [type |-> "General Comment", author |-> comment.author.login, content |-> comment.body,
     file |-> NoneV, line |-> NoneV]

\* lines 145-152
ThreadInlineRecord(thread, comment) ==
    [type |-> "Inline Comment", author |-> comment.author.login, content |-> comment.body,
     file |-> Get(thread, "path", NoneV), line |-> Get(thread, "line", NoneV),
     diff_side |-> Get(thread, "side", NoneV)]

\* faulty variant: the author filter is not applied
SkipAuthorNever(username, login) == FALSE

\* lines 110-111, 126-127, 142-143: the author-filter skip rule
SkipAuthor(username, login) == Truthy(username) /\ login # username[1]

\* lines 113, 129: body and body.strip()
NonBlank(body) == body # << >> /\ Strip(body) # << >>

\* lines 109-122: the loop over reviews
RECURSIVE AppendReviews(_, _, _)
AppendReviews(cs, reviews, username) ==
    IF Len(reviews) = 0 THEN cs
    ELSE LET review == Head(reviews)
             keep   == ~SkipAuthor(username, review.author.login) /\ NonBlank(review.body)
         IN  AppendReviews(IF keep THEN Append(cs, ReviewRecord(review)) ELSE cs,
                           Tail(reviews), username)

\* lines 125-136: the loop over general comments
RECURSIVE AppendGeneral(_, _, _)
AppendGeneral(cs, cmts, username) ==
    IF Len(cmts) = 0 THEN cs
    ELSE LET comment == Head(cmts)
             keep    == ~SkipAuthor(username, comment.author.login) /\ NonBlank(comment.body)
         IN  AppendGeneral(IF keep THEN Append(cs, GeneralRecord(comment)) ELSE cs,
                           Tail(cmts), username)

\* lines 141-152: the loop over the comments of one thread
RECURSIVE AppendThreadComments(_, _, _, _)
AppendThreadComments(cs, thread, cmts, username) ==
    IF Len(cmts) = 0 THEN cs
    ELSE LET comment == Head(cmts)
             keep    == ~SkipAuthor(username, comment.author.login)
         IN  AppendThreadComments(
                 IF keep THEN Append(cs, ThreadInlineRecord(thread, comment)) ELSE cs,
                 thread, Tail(cmts), username)

\* lines 139-152: the loop over review threads
RECURSIVE AppendThreads(_, _, _)
AppendThreads(cs, threads, username) ==
    IF Len(threads) = 0 THEN cs
    ELSE LET thread == Head(threads)
             tc     == Get(thread, "comments", << >>)
         IN  AppendThreads(AppendThreadComments(cs, thread, tc, username),
                           Tail(threads), username)

\* lines 99-106: the description is added only without a filter
WithDescription(pr_data, username) ==
    IF ~Truthy(username) /\ Get(pr_data, "title", << >>) # << >>
       /\ Get(pr_data, "body", << >>) # << >>
    THEN <<DescriptionRecord(pr_data)>>
    ELSE << >>

\* faulty variant: the inline comments are collected before the general comments
FullModeCommentsInlineFirst(pr_data, username) ==
    AppendGeneral(
        AppendThreads(
            AppendReviews(WithDescription(pr_data, username),
                          Get(pr_data, "reviews", << >>), username),
            Get(pr_data, "reviewThreads", << >>), username),
        Get(pr_data, "comments", << >>), username)

\* lines 94-152: full mode, from the value run_gh_command returned
FullModeComments(pr_data, username) ==
    AppendThreads(
        AppendGeneral(
            AppendReviews(WithDescription(pr_data, username),
                          Get(pr_data, "reviews", << >>), username),
            Get(pr_data, "comments", << >>), username),
        Get(pr_data, "reviewThreads", << >>), username)

\* lines 69-78: the specific review, from the value run_gh_api returned
WithSpecificReview(review_data, rid) ==
    IF DOMAIN review_data # {} /\ Get(review_data, "body", << >>) # << >>
    THEN <<SpecificReviewRecord(review_data, rid)>>
    ELSE << >>

\* lines 64-92: review-id mode, from the two values run_gh_api returned
ReviewModeComments(review_data, review_comments, rid) ==
    AppendReviewInline(WithSpecificReview(review_data, rid), review_comments, rid)

\* faulty variant: the author filter is applied in review-id mode too
KeptBy(username, cs) ==
    IF Len(cs) = 0 \/ ~Truthy(username) THEN cs
    ELSE SelectSeq(cs, LAMBDA c : c.author = username[1])

extract_pr_comments_filtering(outs, username, rid) ==
    IF Truthy(rid)
    THEN LET r1 == run_gh_api(outs[1])
             r2 == run_gh_api(outs[2])
         IN  IF r1.raised # "none" THEN [raised |-> r1.raised, comments |-> << >>]
             ELSE IF r2.raised # "none" THEN [raised |-> r2.raised, comments |-> << >>]
             ELSE [raised |-> "none",
                   comments |-> KeptBy(username, ReviewModeComments(r1.value, r2.value, rid))]
    ELSE LET r == run_gh_command(outs[1])
         IN  IF r.raised # "none" THEN [raised |-> r.raised, comments |-> << >>]
             ELSE [raised |-> "none", comments |-> FullModeComments(r.value, username)]

\* extract_pr_comments(pr_number, repo, username, review_id), given what the
\* external commands of its fetches did (outs: one outcome per fetch, in order):
\* the returned sequence, or the exception a fetch raised
extract_pr_comments(outs, username, rid) ==
    IF Truthy(rid)
    THEN LET r1 == run_gh_api(outs[1])
             r2 == run_gh_api(outs[2])
         IN  IF r1.raised # "none" THEN [raised |-> r1.raised, comments |-> << >>]
             ELSE IF r2.raised # "none" THEN [raised |-> r2.raised, comments |-> << >>]
             ELSE [raised |-> "none",
                   comments |-> ReviewModeComments(r1.value, r2.value, rid)]
    ELSE LET r == run_gh_command(outs[1])
         IN  IF r.raised # "none" THEN [raised |-> r.raised, comments |-> << >>]
             ELSE [raised |-> "none", comments |-> FullModeComments(r.value, username)]

----------------------------------------------------------------------------
(* format_prompt *)

\* The prompt is kept as the sequence of its segments: each f-string of
\* format_prompt is one segment holding the values it interpolates.

RecognizedStates == {Some("CHANGES_REQUESTED"), Some("COMMENTED"), Some("APPROVED")}

\* faulty variant: the state of a review is not looked at
IsReviewLikeAnyState(c) == c.type \in {"Review", "Specific Review"}

\* line 175: the condition of the review_comments comprehension
IsReviewLike(c) ==
    c.type \in {"Review", "Specific Review"} /\ Get(c, "state", NoneV) \in RecognizedStates

\* line 176
IsInline(c) == c.type = "Inline Comment"

\* line 177
IsGeneral(c) == c.type = "General Comment"

\* lines 183-187
ReviewBlock(c) ==
    [seg |-> "review_block",
     emoji |-> IF Get(c, "state", NoneV) = Some("CHANGES_REQUESTED") THEN "red" ELSE "speech",
     author |-> c.author, state |-> Get(c, "state", Some("COMMENTED")),
     review_id |-> IF Truthy(Get(c, "review_id", NoneV)) THEN c.review_id ELSE NoneV,
     content |-> c.content]

\* lines 193-196
InlineBlock(c) ==
    [seg |-> "inline_block", author |-> c.author,
     file_info |-> IF Truthy(c.file) THEN c.file ELSE NoneV,
     line_info |-> IF TruthyInt(c.line) THEN c.line ELSE NoneV,
     content |-> c.content]

\* lines 202-203
GeneralBlock(c) == [seg |-> "general_block", author |-> c.author, content |-> c.content]

RECURSIVE ReviewBlocks(_)
ReviewBlocks(cs) == IF Len(cs) = 0 THEN << >> ELSE <<ReviewBlock(Head(cs))>> \o ReviewBlocks(Tail(cs))

RECURSIVE InlineBlocks(_)
InlineBlocks(cs) == IF Len(cs) = 0 THEN << >> ELSE <<InlineBlock(Head(cs))>> \o InlineBlocks(Tail(cs))

RECURSIVE GeneralBlocks(_)
GeneralBlocks(cs) == IF Len(cs) = 0 THEN << >> ELSE <<GeneralBlock(Head(cs))>> \o GeneralBlocks(Tail(cs))

\* lines 180-187, 190-196, 199-203: a section is its heading and its blocks,
\* and is left out when its bucket is empty
Section(heading, blocks) ==
    IF Len(blocks) = 0 THEN << >> ELSE <<[seg |-> heading]>> \o blocks

format_prompt(cs, number, rep, username, rid) ==
    LET review_comments  == SelectSeq(cs, IsReviewLike)
        inline_comments  == SelectSeq(cs, IsInline)
        general_comments == SelectSeq(cs, IsGeneral)
    IN  <<[seg |-> "title", pr_number |-> number, repo |-> rep]>>
        \o (IF Truthy(username) THEN <<[seg |-> "reviewer", username |-> username[1]]>> ELSE << >>)
        \o (IF Truthy(rid)
            THEN <<[seg |-> "review_id", review_id |-> rid[1]],
                   [seg |-> "review_link", repo |-> rep, pr_number |-> number, review_id |-> rid[1]]>>
            ELSE << >>)
        \o <<[seg |-> "intro"]>>
        \o Section("review_heading", ReviewBlocks(review_comments))
        \o Section("inline_heading", InlineBlocks(inline_comments))
        \o Section("general_heading", GeneralBlocks(general_comments))
        \o <<[seg |-> "instructions", pr_number |-> number, repo |-> rep]>>
        \o (IF Truthy(username) THEN <<[seg |-> "filtered_by", username |-> username[1]]>> ELSE << >>)
        \o (IF Truthy(rid)
            THEN <<[seg |-> "specific_review", repo |-> rep, pr_number |-> number, review_id |-> rid[1]]>>
            ELSE << >>)
        \o <<[seg |-> "closing"]>>

----------------------------------------------------------------------------
(* main *)

COPILOT_PROMPT_PR == <<"c","o","p","i","l","o","t","_","p","r","o","m","p","t","_","p","r","_">>

REVIEW_SUFFIX == <<"_","r","e","v","i","e","w","_">>

MD == <<".","m","d">>

COPILOT_INSTRUCTIONS == <<".","c","o","p","i","l","o","t","-","i","n","s","t","r","u","c","t","i","o","n","s",".","m","d">>

\* lines 302-308: the name of the output file
OutputFileName(a, number, rid) ==
    (IF Truthy(a.output) THEN a.output[1] ELSE COPILOT_PROMPT_PR \o number)
    \o (IF Truthy(a.user) THEN <<"_">> \o a.user[1] ELSE << >>)
    \o (IF Truthy(rid) THEN REVIEW_SUFFIX \o rid[1] ELSE << >>)
    \o MD

\* sys.exit(code), and an exception that leaves main: the process ends
Exit(code, exc) ==
    /\ pc' = "exit"
    /\ exit_code' = Some(code)
    /\ raised' = exc

\* lines 264-266, 435-437: parse the input; a ValueError is reported, exit 1
ParseInput ==
    /\ pc = "start"
    /\ LET r == parse_pr_url(input)
       IN  IF r.raised # "none"
           THEN /\ Exit(1, r.raised)
                /\ UNCHANGED <<parsed_repo, pr_number, review_id>>
           ELSE /\ parsed_repo' = r.repo
                /\ pr_number' = r.pr_number
                /\ review_id' = r.review_id
                /\ pc' = "resolve"
                /\ UNCHANGED <<exit_code, raised>>
    /\ UNCHANGED <<input, args, repo, fetched, comments, prompt, output_file, files,
                   all_files, events>>

\* What `gh repo view --json nameWithOwner` can do.  The command is run without
\* a shell, so a missing executable is FileNotFoundError (found = FALSE).
RepoViewOutcomes ==
    {[found |-> FALSE, out |-> CmdFail]}
    \cup {[found |-> TRUE, out |-> o] :
            o \in {CmdFail, CmdBlank, CmdGarbage, CmdJson(EmptyMap),
                   CmdJson([nameWithOwner |-> <<"c", "/", "w">>])}}

\* lines 272-280: the ambient repository, or NoneV when the bare except fires
AmbientRepo(o) ==
    IF ~o.found \/ o.out.exit # 0 THEN NoneV
    ELSE IF json_loads(o.out.stdout).raised # "none" THEN NoneV
    ELSE IF "nameWithOwner" \notin DOMAIN json_loads(o.out.stdout).value THEN NoneV
    ELSE Some(json_loads(o.out.stdout).value.nameWithOwner)

\* faulty variant: the --repo flag wins over the repository parsed from the URL
ChosenRepoFlagFirst(parsed, flag) == Or(flag, parsed)

\* line 269: repo = parsed_repo or args.repo
ChosenRepo(parsed, flag) == Or(parsed, flag)

\* lines 269-280: resolve the repository, exit 1 when there is none
ResolveRepo ==
    /\ pc = "resolve"
    /\ IF Truthy(ChosenRepo(parsed_repo, args.repo))
       THEN /\ repo' = ChosenRepo(parsed_repo, args.repo)
            /\ pc' = "extract"
            /\ UNCHANGED <<events, exit_code, raised>>
       ELSE \E o \in RepoViewOutcomes :
            /\ events' = Append(events, "gh_repo_view")
            /\ IF AmbientRepo(o) # NoneV
               THEN /\ repo' = AmbientRepo(o)
                    /\ pc' = "extract"
                    /\ UNCHANGED <<exit_code, raised>>
               ELSE /\ Exit(1, "SystemExit")
                    /\ UNCHANGED repo
    /\ UNCHANGED <<input, args, parsed_repo, pr_number, review_id, fetched, comments,
                   prompt, output_file, files, all_files>>

\* line 289, 435-437: extract the comments, given what the external commands
\* of the fetches do; a JSONDecodeError is a ValueError: reported, exit 1
ExtractWith(outs) ==
    /\ pc = "extract"
    /\ fetched' = outs
    /\ events' = Append(events, "fetch")
    /\ LET r == extract_pr_comments(outs, args.user, review_id)
       IN  IF r.raised # "none"
           THEN /\ Exit(1, r.raised)
                /\ UNCHANGED comments
           ELSE /\ comments' = r.comments
                /\ pc' = "save"
                /\ UNCHANGED <<exit_code, raised>>
    /\ UNCHANGED <<input, args, parsed_repo, pr_number, review_id, repo, prompt,
                   output_file, files, all_files>>

\* faulty variant: an empty sequence is formatted and saved like any other
NoCommentsNever(cs) == FALSE

\* line 291: if not comments
NoComments(cs) == Len(cs) = 0

\* lines 291-312: exit 1 without comments, else format the prompt and save it
SaveStep ==
    /\ pc = "save"
    /\ IF NoComments(comments)
       THEN /\ Exit(1, "SystemExit")
            /\ UNCHANGED <<prompt, output_file, files, events>>
       ELSE /\ prompt' = format_prompt(comments, pr_number[1], repo[1], args.user, review_id)
            /\ output_file' = Some(OutputFileName(args, pr_number[1], review_id))
            /\ files' = files \cup {OutputFileName(args, pr_number[1], review_id)}
            /\ events' = Append(events, "write_output")
            /\ pc' = "copy"
            /\ UNCHANGED <<exit_code, raised>>
    /\ UNCHANGED <<input, args, parsed_repo, pr_number, review_id, repo, fetched,
                   comments, all_files>>

\* What `import pyperclip; pyperclip.copy(prompt)` can do: copy, fail to import,
\* or raise pyperclip's own exception when the system has no clipboard mechanism
ClipOutcomes == {"copied", "ImportError", "PyperclipException"}

\* lines 316-321 and 361-366: only ImportError is caught
ClipCaught(clip) == clip \in {"copied", "ImportError"}

\* lines 315-321: --copy
CopyStep ==
    /\ pc = "copy"
    /\ IF ~args.copy
       THEN /\ pc' = "open"
            /\ UNCHANGED <<events, exit_code, raised>>
       ELSE \E clip \in ClipOutcomes :
            /\ events' = Append(events, "clipboard")
            /\ IF ClipCaught(clip)
               THEN /\ pc' = "open"
                    /\ UNCHANGED <<exit_code, raised>>
               ELSE Exit(1, clip)
    /\ UNCHANGED <<input, args, parsed_repo, pr_number, review_id, repo, fetched,
                   comments, prompt, output_file, files, all_files>>

\* What the listing of the PR's files can yield: an exception (tool missing,
\* non-zero exit), no listed file present locally, or some files present
DiffOutcomes == {"error", "none_local", "some_local"}

\* lines 324-344: the files of the PR that exist locally
OpenDiff ==
    /\ pc = "open"
    /\ IF ~args.open
       THEN /\ pc' = "summary"
            /\ UNCHANGED <<events, all_files>>
       ELSE \E d \in DiffOutcomes :
            /\ events' = Append(events, "gh_pr_diff")
            /\ all_files' = IF d = "some_local" THEN <<<<"f">>>> ELSE << >>
            /\ pc' = "code"
    /\ UNCHANGED <<input, args, parsed_repo, pr_number, review_id, repo, fetched,
                   comments, prompt, output_file, files, exit_code, raised>>

\* What running the editor can do: run, be absent (FileNotFoundError), or exit
\* non-zero (CalledProcessError, check=True)
CodeOutcomes == {"opened", "FileNotFoundError", "CalledProcessError"}

\* lines 346-357, 406-407: open the editor; its failure skips the rest of the block
OpenEditor ==
    /\ pc = "code"
    /\ \E c \in CodeOutcomes :
        /\ events' = Append(events, "code")
        /\ pc' = IF c = "opened" THEN "autocopy" ELSE "summary"
    /\ UNCHANGED <<input, args, parsed_repo, pr_number, review_id, repo, fetched,
                   comments, prompt, output_file, files, all_files, exit_code, raised>>

\* lines 360-366: the automatic copy, unless --no-copy
AutoCopy ==
    /\ pc = "autocopy"
    /\ IF args.no_copy
       THEN /\ pc' = "chat"
            /\ UNCHANGED <<events, exit_code, raised>>
       ELSE \E clip \in ClipOutcomes :
            /\ events' = Append(events, "clipboard")
            /\ IF ClipCaught(clip)
               THEN /\ pc' = "chat"
                    /\ UNCHANGED <<exit_code, raised>>
               ELSE Exit(1, clip)
    /\ UNCHANGED <<input, args, parsed_repo, pr_number, review_id, repo, fetched,
                   comments, prompt, output_file, files, all_files>>

\* lines 369-382: --chat; check=False and except Exception: nothing escapes
OpenChat ==
    /\ pc = "chat"
    /\ IF ~args.chat
       THEN UNCHANGED events
       ELSE \E c \in {"ran", "FileNotFoundError"} : events' = Append(events, "chat")
    /\ pc' = "instructions"
    /\ UNCHANGED <<input, args, parsed_repo, pr_number, review_id, repo, fetched,
                   comments, prompt, output_file, files, all_files, exit_code, raised>>

\* lines 385-404: the auxiliary context file
WriteInstructions ==
    /\ pc = "instructions"
    /\ files' = files \cup {COPILOT_INSTRUCTIONS}
    /\ events' = Append(events, "write_instructions")
    /\ pc' = "summary"
    /\ UNCHANGED <<input, args, parsed_repo, pr_number, review_id, repo, fetched,
                   comments, prompt, output_file, all_files, exit_code, raised>>

\* lines 409-433: the summary; main returns and the process ends with status 0
Summary ==
    /\ pc = "summary"
    /\ events' = Append(events, "summary")
    /\ pc' = "exit"
    /\ exit_code' = Some(0)
    /\ UNCHANGED <<input, args, parsed_repo, pr_number, review_id, repo, fetched,
                   comments, prompt, output_file, files, all_files, raised>>

----------------------------------------------------------------------------
(* The data the runs are checked on *)

MaxItems == 2        \* reviews, comments and thread comments of one fetch, in total

MaxThreads == 2      \* review threads of one fetch

MaxDigits == 2       \* length of an all-digit input

Authors == {<<"a">>, <<"b">>}

Bodies == {<< >>, <<" ">>, <<"o", "k">>}

ReviewStates ==
    RecognizedStates \cup {Some("DISMISSED"), Some("PENDING"), NoneV}

Login(a) == [login |-> a]

\* an author and a body: every body for one author, a non-blank one for the other
AuthoredBodies == {<<<<"a">>, b>> : b \in Bodies} \cup {<<<<"b">>, <<"o", "k">>>>}

\* reviews of `gh pr view --json reviews`: every authored body, and for one of
\* them every state, and a review without an id
ReviewPool ==
    {[author |-> Login(ab[1]), body |-> ab[2], state |-> Some("APPROVED"),
      id |-> Some(<<"9">>)] : ab \in AuthoredBodies}
    \cup {[author |-> Login(<<"a">>), body |-> <<"o", "k">>, state |-> st,
           id |-> Some(<<"9">>)] : st \in ReviewStates}
    \cup {[author |-> Login(<<"a">>), body |-> <<"o", "k">>, state |-> Some("COMMENTED"),
           id |-> NoneV]}

CommentPool == {[author |-> Login(ab[1]), body |-> ab[2]] : ab \in AuthoredBodies}

Thread(cs) ==
    [comments |-> cs, path |-> Some(<<"f">>), line |-> Some(7), side |-> Some(<<"R">>)]

\* the sequences of n threads holding at most k comments in total
RECURSIVE ThreadsN(_, _)
ThreadsN(k, n) ==
    IF n = 0 THEN {<< >>}
    ELSE UNION {{<<Thread(cs)>> \o rest : cs \in [1..j -> CommentPool],
                                           rest \in ThreadsN(k - j, n - 1)} : j \in 0..k}

ThreadSeqs(k) == UNION {ThreadsN(k, n) : n \in 0..MaxThreads}

TitleBodies == {<<t, b>> : t \in {<< >>, <<"T">>}, b \in {<< >>, <<"B">>}}

PrData(tb, r, c, t) ==
    [title |-> tb[1], body |-> tb[2], author |-> Login(<<"b">>),
     reviews |-> r, comments |-> c, reviewThreads |-> t]

\* the values `gh pr view --json ...` can print: at most MaxItems items in all
PrDataSets ==
    UNION {UNION {{PrData(tb, r, c, t) :
                      tb \in TitleBodies, r \in [1..nr -> ReviewPool],
                      c \in [1..nc -> CommentPool], t \in ThreadSeqs(MaxItems - nr - nc)} :
                  nc \in 0..(MaxItems - nr)} :
           nr \in 0..MaxItems}

\* the review of `gh api .../reviews/<id>`
ReviewDataPool ==
    {[body |-> ab[2], user |-> Login(ab[1]), state |-> Some("COMMENTED")] :
        ab \in AuthoredBodies}
    \cup {[body |-> <<"o", "k">>, user |-> Login(<<"a">>), state |-> st] : st \in ReviewStates}

\* the comments of `gh api .../reviews/<id>/comments`
ReviewCommentPool ==
    {[user |-> Login(ab[1]), body |-> ab[2], path |-> Some(<<"f">>), line |-> NoneV,
      original_line |-> Some(7), side |-> Some(<<"R">>)] : ab \in AuthoredBodies}

ReviewCommentSeqs == UNION {[1..n -> ReviewCommentPool] : n \in 0..MaxItems}

CmdErrors == {CmdFail, CmdBlank, CmdGarbage}

\* what the fetches of extract_pr_comments can meet, one outcome per fetch
AllFetches(rid) ==
    IF Truthy(rid)
    THEN {<<o1, o2>> : o1 \in CmdErrors \cup {CmdJson(v) : v \in ReviewDataPool},
                       o2 \in CmdErrors \cup {CmdJson(v) : v \in ReviewCommentSeqs}}
    ELSE {<<o>> : o \in CmdErrors \cup {CmdJson(v) : v \in PrDataSets}}

\* a few fetches for the runs of the whole of main
MainPrData ==
    {PrData(<<<<"T">>, <<"B">>>>, << >>, << >>, << >>),
     PrData(<<<< >>, << >>>>,
            <<[author |-> Login(<<"a">>), body |-> <<"o", "k">>,
               state |-> Some("CHANGES_REQUESTED"), id |-> Some(<<"9">>)]>>,
            << >>, << >>),
     PrData(<<<< >>, << >>>>,
            <<[author |-> Login(<<"b">>), body |-> <<" ">>,
               state |-> Some("APPROVED"), id |-> Some(<<"9">>)]>>,
            <<[author |-> Login(<<"b">>), body |-> <<"o", "k">>]>>, << >>)}

MainFetches(rid) ==
    IF Truthy(rid)
    THEN {<<o1, o2>> :
            o1 \in {CmdFail, CmdGarbage,
                    CmdJson([body |-> <<"o", "k">>, user |-> Login(<<"a">>),
                             state |-> Some("COMMENTED")])},
            o2 \in {CmdFail, CmdJson(<< >>),
                    CmdJson(<<[user |-> Login(<<"b">>), body |-> <<"o", "k">>,
                               path |-> Some(<<"f">>), line |-> Some(3),
                               original_line |-> Some(7), side |-> Some(<<"R">>)]>>)}}
    ELSE {<<o>> : o \in CmdErrors \cup {CmdJson(v) : v \in MainPrData}}

ExtractMain == pc = "extract" /\ \E outs \in MainFetches(review_id) : ExtractWith(outs)

ExtractAny == pc = "extract" /\ \E outs \in AllFetches(review_id) : ExtractWith(outs)

URL_42 == HTTPS_GITHUB \o <<"o","/","r","/","p","u","l","l","/","4","2">>

URL_42_REVIEW == URL_42 \o <<"#">> \o REVIEW_PREFIX \o <<"7">>

MainInputs == {<<"9", "3", "7">>, URL_42, URL_42_REVIEW, <<"x">>}

MainArgs ==
    [user : {NoneV, Some(<<"a">>)}, repo : {NoneV, Some(<<"p", "/", "q">>)},
     output : {NoneV, Some(<<"n">>)}, copy : BOOLEAN, open : {TRUE},
     no_copy : BOOLEAN, chat : BOOLEAN]

\* the state of main after argparse
InitWith(i, a) ==
    /\ pc = "start"
    /\ input = i
    /\ args = a
    /\ parsed_repo = NoneV
    /\ pr_number = NoneV
    /\ review_id = NoneV
    /\ repo = NoneV
    /\ fetched = << >>
    /\ comments = << >>
    /\ prompt = << >>
    /\ output_file = NoneV
    /\ files = {}
    /\ exit_code = NoneV
    /\ raised = "none"
    /\ all_files = << >>
    /\ events = << >>

Init == \E i \in MainInputs, a \in MainArgs : InitWith(i, a)

Next ==
    \/ ParseInput
    \/ ResolveRepo
    \/ ExtractMain
    \/ SaveStep
    \/ CopyStep
    \/ OpenDiff
    \/ OpenEditor
    \/ AutoCopy
    \/ OpenChat
    \/ WriteInstructions
    \/ Summary

Spec == Init /\ [][Next]_vars

----------------------------------------------------------------------------
(* parse_pr_url on its own: inputs assembled from well-formed and broken parts *)

DigitStrings == UNION {[1..n -> {"4", "2"}] : n \in 1..MaxDigits}

Prefixes == {<< >>, <<"x", " ">>, REVIEW_PREFIX \o <<"9">> \o <<" ">>}

Schemes == {HTTPS_GITHUB, << >>, Tail(HTTPS_GITHUB),
            <<"h","t","t","p","s",":","/","/","g","i","t","h","u","b","X","c","o","m","/">>}

Owners == {<<"o">>, << >>}

Repos == {<<"r">>, << >>}

PullSegs == {PULL, <<"/","p","u","l","l","s","/">>, <<"/">>}

Numbers == {<<"4", "2">>, << >>, <<"4", "a">>}

Fragments == {<< >>, <<"#">> \o REVIEW_PREFIX \o <<"7">>, <<"#">> \o REVIEW_PREFIX,
              <<"/","f","i","l","e","s">>}

Suffixes == {<< >>, <<" ", "x">>}

ParseInputs ==
    DigitStrings
    \cup {<< >>, <<"x">>, <<"4", "x">>, REVIEW_PREFIX \o <<"7">>}
    \cup {p \o s \o o \o <<"/">> \o r \o l \o n \o f \o x :
            p \in Prefixes, s \in Schemes, o \in Owners, r \in Repos, l \in PullSegs,
            n \in Numbers, f \in Fragments, x \in Suffixes}

DefaultArgs ==
    [user |-> NoneV, repo |-> NoneV, output |-> NoneV, copy |-> FALSE, open |-> TRUE,
     no_copy |-> FALSE, chat |-> FALSE]

InitParse == \E i \in ParseInputs : InitWith(i, DefaultArgs)

NextParse == ParseInput

SpecParse == InitParse /\ [][NextParse]_vars

----------------------------------------------------------------------------
(* extract_pr_comments and format_prompt on every fetch within the bounds: *)
(* main from the call of extract_pr_comments to the saved prompt           *)

Users == {NoneV, Some(<< >>), Some(<<"a">>)}

InitExtract ==
    \E u \in Users, i \in {URL_42, URL_42_REVIEW} :
        /\ pc = "extract"
        /\ input = i
        /\ args = [DefaultArgs EXCEPT !.user = u]
        /\ parsed_repo = parse_pr_url(i).repo
        /\ pr_number = parse_pr_url(i).pr_number
        /\ review_id = parse_pr_url(i).review_id
        /\ repo = parse_pr_url(i).repo
        /\ fetched = << >>
        /\ comments = << >>
        /\ prompt = << >>
        /\ output_file = NoneV
        /\ files = {}
        /\ exit_code = NoneV
        /\ raised = "none"
        /\ all_files = << >>
        /\ events = << >>

NextExtract ==
    \/ ExtractAny
    \/ SaveStep

SpecExtract == InitExtract /\ [][NextExtract]_vars

----------------------------------------------------------------------------
(* Properties *)

Range(f) == {f[i] : i \in DOMAIN f}

\* a is b with some elements left out, order kept
RECURSIVE IsSubseq(_, _)
IsSubseq(a, b) ==
    IF Len(a) = 0 THEN TRUE
    ELSE IF Len(b) = 0 THEN FALSE
    ELSE IF Head(a) = Head(b) THEN IsSubseq(Tail(a), Tail(b))
    ELSE IsSubseq(a, Tail(b))

\* extract_pr_comments has returned (main holds its result in comments)
Extracted == pc \in {"save", "copy"}

FullMode == ~Truthy(review_id)

FilterActive == Truthy(args.user)

Blank(s) == \A i \in 1..Len(s) : s[i] \in Whitespace

\* C1: extract_pr_comments never emits a record with blank content, in full
\* mode and in review-id mode, whatever the fetched bodies are.
C1_NoBlankContent ==
    Extracted => \A i \in 1..Len(comments) : ~Blank(comments[i].content)

\* C2: in full mode with an author filter active, every returned record has
\* the filter as its author and no PR Description record is returned.
C2_AuthorFilter ==
    (Extracted /\ FullMode /\ FilterActive) =>
        \A i \in 1..Len(comments) :
            /\ comments[i].author = args.user[1]
            /\ comments[i].type # "PR Description"

\* the fetch answered with a titled, described PR holding an item by another author
C2_Witness ==
    /\ pc = "save" /\ FullMode /\ FilterActive
    /\ Len(comments) >= 1
    /\ fetched[1].stdout.kind = "json"
    /\ fetched[1].stdout.value.title # << >>
    /\ fetched[1].stdout.value.body # << >>
    /\ \E r \in Range(fetched[1].stdout.value.reviews) : r.author.login # args.user[1]
    /\ \E t \in Range(fetched[1].stdout.value.reviewThreads) :
          \E c \in Range(t.comments) : c.author.login = args.user[1]

\* C3: run_gh_command and run_gh_api never raise: for every outcome of the
\* external command they return a value, the empty mapping when the command
\* fails, and no fetch ends main with an exception.
C3_FetchersNeverRaise ==
    /\ \A k \in 1..Len(fetched) :
          /\ run_gh_command(fetched[k]).raised = "none"
          /\ run_gh_api(fetched[k]).raised = "none"
          /\ fetched[k].exit # 0 => DOMAIN run_gh_command(fetched[k]).value = {}
    /\ raised # "JSONDecodeError"

\* the external steps a run makes once the prompt is saved
AfterSaveEvents == {"clipboard", "gh_pr_diff", "code", "chat", "write_instructions"}

\* C4: when extract_pr_comments returns an empty sequence the run ends with
\* exit code 1, neither the output file nor .copilot-instructions.md is
\* written and no clipboard or editor step is attempted; the output file is
\* written only when the extracted sequence is non-empty.
C4_NoCommentsNoOutput ==
    /\ ("fetch" \in Range(events) /\ pc # "save" /\ Len(comments) = 0) =>
          /\ pc = "exit"
          /\ exit_code = Some(1)
          /\ files = {}
          /\ Range(events) \cap (AfterSaveEvents \cup {"write_output", "summary"}) = {}
    /\ (files # {} \/ "write_output" \in Range(events)) => Len(comments) > 0

\* the fetch succeeded, nothing was extracted, and the run has ended
C4_Witness ==
    /\ pc = "exit"
    /\ raised = "SystemExit"
    /\ "fetch" \in Range(events)
    /\ fetched[1].stdout.kind = "json"
    /\ Len(comments) = 0

\* main is past the resolution of the repository
Resolved == pc \in {"extract", "save", "copy", "open", "code", "autocopy", "chat",
                    "instructions", "summary"}
            \/ (pc = "exit" /\ "fetch" \in Range(events))

\* C5: the repository is the one parsed from the URL, else the --repo flag,
\* else the ambient one; the external tool is asked only when both earlier
\* sources are absent; when all three yield nothing the run ends with exit
\* code 1 before any fetch or file write.
C5_RepoPrecedence ==
    /\ Resolved =>
          /\ Truthy(repo)
          /\ Truthy(parsed_repo) => repo = parsed_repo
          /\ (~Truthy(parsed_repo) /\ Truthy(args.repo)) => repo = args.repo
          /\ (~Truthy(parsed_repo) /\ ~Truthy(args.repo)) => "gh_repo_view" \in Range(events)
    /\ "gh_repo_view" \in Range(events) => (~Truthy(parsed_repo) /\ ~Truthy(args.repo))
    /\ ("gh_repo_view" \in Range(events) /\ ~Truthy(repo)) =>
          /\ pc = "exit"
          /\ exit_code = Some(1)
          /\ events = <<"gh_repo_view">>
          /\ files = {}

\* input "937", no --repo, the external tool yields no repository
C5_Witness ==
    /\ pc = "exit"
    /\ input = <<"9", "3", "7">>
    /\ ~Truthy(args.repo)
    /\ events = <<"gh_repo_view">>
    /\ exit_code = Some(1)

----------------------------------------------------------------------------
(* parse_pr_url: the shapes of the claim, stated on the string *)

\* <owner>/<repo>: exactly one slash, with text on both sides
IsOwnerRepo(r) ==
    \E p \in 2..(Len(r) - 1) : r[p] = "/" /\ \A q \in 1..Len(r) : (r[q] = "/" => q = p)

\* u is https://github.com/<owner>/<repo>/pull/<number>, with these parts
IsPrUrlOf(u, r, n) == IsOwnerRepo(r) /\ IsDigit(n) /\ u = HTTPS_GITHUB \o r \o PULL \o n

\* u is https://github.com/<owner>/<repo>/pull/<number> for some parts
IsPrUrl(u) ==
    \E p \in 1..Len(u) :
        /\ MatchesAt(u, p, PULL)
        /\ IsPrUrlOf(u, SubSeq(u, Len(HTTPS_GITHUB) + 1, p - 1),
                        SubSeq(u, p + Len(PULL), Len(u)))

\* f is #pullrequestreview-<digits> with these digits
IsReviewFragmentOf(f, d) == IsDigit(d) /\ f = <<"#">> \o REVIEW_PREFIX \o d

\* the whole of s is a PR URL, with or without a review fragment
IsWholeUrl(s) ==
    \/ IsPrUrl(s)
    \/ \E k \in 1..Len(s) :
          /\ s[k] = "#"
          /\ IsPrUrl(SubSeq(s, 1, k - 1))
          /\ IsReviewFragmentOf(SubSeq(s, k, Len(s)), SubSeq(s, k + 1 + Len(REVIEW_PREFIX), Len(s)))

\* a PR URL lies in s from position i to position j
UrlAt(s, i, j) == MatchesAt(s, i, HTTPS_GITHUB) /\ IsPrUrl(SubSeq(s, i, j))

ContainsUrl(s) == \E i \in 1..Len(s) : \E j \in i..Len(s) : UrlAt(s, i, j)

\* pullrequestreview-<digits> lies in s with exactly the digits d
HasReviewDigits(s, d) ==
    \E k \in 1..Len(s) :
        /\ MatchesAt(s, k, REVIEW_PREFIX \o d)
        /\ IsDigit(d)
        /\ (k + Len(REVIEW_PREFIX) + Len(d) > Len(s)
            \/ s[k + Len(REVIEW_PREFIX) + Len(d)] \notin Digits)

ContainsReview(s) ==
    \E k \in 1..Len(s) :
        MatchesAt(s, k, REVIEW_PREFIX) /\ k + Len(REVIEW_PREFIX) <= Len(s)
        /\ s[k + Len(REVIEW_PREFIX)] \in Digits

\* parse_pr_url has returned or raised
Parsed == pc # "start"

ParseFailed == pc = "exit" /\ raised = "ValueError" /\ events = << >>

ParseReturned(r, n, v) ==
    pc # "exit" /\ raised = "none" /\ parsed_repo = r /\ pr_number = n /\ review_id = v

\* C6 as stated: an all-digit string yields (none, it, none); a string that is
\* a PR URL (with or without a review fragment) yields its parts; every other
\* string, one that merely contains such a URL among other text included, fails.
C6_ThreeOutcomes ==
    Parsed =>
        IF IsDigit(input) THEN ParseReturned(NoneV, Some(input), NoneV)
        ELSE IF IsWholeUrl(input)
        THEN /\ pc # "exit" /\ raised = "none"
             /\ Truthy(parsed_repo) /\ Truthy(pr_number)
             /\ \E j \in 1..Len(input) :
                   IsPrUrlOf(SubSeq(input, 1, j), parsed_repo[1], pr_number[1])
             /\ IF ContainsReview(input)
                THEN Truthy(review_id) /\ HasReviewDigits(input, review_id[1])
                ELSE review_id = NoneV
        ELSE ParseFailed

\* C6 amended: an all-digit string yields (none, it, none); a string that
\* contains a PR URL, alone or among other text, yields the owner/repo and the
\* number of the first such URL in it, and as review id the digits of a
\* pullrequestreview-<digits> fragment found anywhere in the string, none when
\* there is no such fragment; only a string that is not all digits and
\* contains no PR URL fails with the invalid-input error.
C6_SearchOutcomes ==
    Parsed =>
        IF IsDigit(input) THEN ParseReturned(NoneV, Some(input), NoneV)
        ELSE IF ContainsUrl(input)
        THEN /\ pc # "exit" /\ raised = "none"
             /\ Truthy(parsed_repo) /\ Truthy(pr_number)
             /\ \E i \in 1..Len(input) : \E j \in i..Len(input) :
                   /\ IsPrUrlOf(SubSeq(input, i, j), parsed_repo[1], pr_number[1])
                   /\ (j = Len(input) \/ input[j + 1] \notin Digits)
                   /\ \A i2 \in 1..(i - 1) : \A j2 \in i2..Len(input) : ~UrlAt(input, i2, j2)
             /\ IF ContainsReview(input)
                THEN Truthy(review_id) /\ HasReviewDigits(input, review_id[1])
                ELSE review_id = NoneV
        ELSE ParseFailed

\* a URL with a review fragment among other text is parsed
C6_Witness ==
    /\ pc = "resolve"
    /\ ~IsDigit(input)
    /\ ~IsWholeUrl(input)
    /\ ContainsUrl(input)
    /\ Truthy(review_id)
    /\ input[1] = "x"

----------------------------------------------------------------------------
(* extract_pr_comments and format_prompt: ordering, modes, buckets *)

\* what the k-th fetch of the run returned to extract_pr_comments
FetchedValue(k) == fetched[k].stdout.value

FetchedOk(k) == fetched[k].exit = 0 /\ fetched[k].stdout.kind = "json"

CategoryRank(t) ==
    CASE t = "PR Description"  -> 0
      [] t = "Review"          -> 1
      [] t = "General Comment" -> 2
      [] t = "Inline Comment"  -> 3
      [] OTHER                 -> 4

\* author and text of the records of one category, in order
RECURSIVE RecordsOf(_, _)
RecordsOf(cs, t) ==
    IF Len(cs) = 0 THEN << >>
    ELSE (IF Head(cs).type = t THEN <<<<Head(cs).author, Head(cs).content>>>> ELSE << >>)
         \o RecordsOf(Tail(cs), t)

\* author and text of fetched items, in order
RECURSIVE ItemsOf(_)
ItemsOf(items) ==
    IF Len(items) = 0 THEN << >>
    ELSE <<<<Head(items).author.login, Head(items).body>>>> \o ItemsOf(Tail(items))

\* the comments of the threads, thread by thread, then comment by comment
RECURSIVE ThreadItems(_)
ThreadItems(threads) ==
    IF Len(threads) = 0 THEN << >>
    ELSE ItemsOf(Head(threads).comments) \o ThreadItems(Tail(threads))

\* C7: in full mode the returned sequence is ordered by category (PR
\* Description, Review, General Comment, Inline Comment), no record of an
\* earlier category follows one of a later category, and within a category
\* the records keep the order of the fetched data, inline comments thread by
\* thread and then comment by comment.
C7_CategoryOrder ==
    (Extracted /\ FullMode) =>
        /\ \A i \in 1..Len(comments) : \A j \in i..Len(comments) :
              CategoryRank(comments[i].type) <= CategoryRank(comments[j].type)
        /\ \A i \in 1..Len(comments) : CategoryRank(comments[i].type) <= 3
        /\ Len(RecordsOf(comments, "PR Description")) <= 1
        /\ FetchedOk(1) =>
              /\ IsSubseq(RecordsOf(comments, "Review"), ItemsOf(FetchedValue(1).reviews))
              /\ IsSubseq(RecordsOf(comments, "General Comment"),
                          ItemsOf(FetchedValue(1).comments))
              /\ IsSubseq(RecordsOf(comments, "Inline Comment"),
                          ThreadItems(FetchedValue(1).reviewThreads))

\* a description, then a general comment, then an inline comment
C7_Witness ==
    /\ pc = "save" /\ FullMode
    /\ Len(comments) = 3
    /\ comments[1].type = "PR Description"
    /\ comments[2].type = "General Comment"
    /\ comments[3].type = "Inline Comment"

\* author and text of the comments fetched for one review, in order
RECURSIVE ReviewItemsOf(_)
ReviewItemsOf(items) ==
    IF Len(items) = 0 THEN << >>
    ELSE <<<<Head(items).user.login, Head(items).body>>>> \o ReviewItemsOf(Tail(items))

BucketOf(c) ==
    IF c.type = "Inline Comment" THEN "inline"
    ELSE IF c.type = "General Comment" THEN "general"
    ELSE IF /\ c.type \in {"Review", "Specific Review"}
            /\ "state" \in DOMAIN c
            /\ c.state \in {Some("CHANGES_REQUESTED"), Some("COMMENTED"), Some("APPROVED")}
    THEN "review"
    ELSE "none"

\* author and text of the records the claim puts in bucket b, in order
RECURSIVE BucketRecords(_, _)
BucketRecords(cs, b) ==
    IF Len(cs) = 0 THEN << >>
    ELSE (IF BucketOf(Head(cs)) = b THEN <<<<Head(cs).author, Head(cs).content>>>> ELSE << >>)
         \o BucketRecords(Tail(cs), b)

\* author and text of the blocks of one kind in the prompt, in order
RECURSIVE BlocksOf(_, _)
BlocksOf(segs, kind) ==
    IF Len(segs) = 0 THEN << >>
    ELSE (IF Head(segs).seg = kind THEN <<<<Head(segs).author, Head(segs).content>>>> ELSE << >>)
         \o BlocksOf(Tail(segs), kind)

BlockKinds == {"review_block", "inline_block", "general_block"}

\* format_prompt has returned (main holds its result in prompt)
Formatted == pc = "copy"

\* C9: format_prompt renders each record in at most one of three buckets,
\* decided by category and state alone: Inline Comment records in the inline
\* bucket, General Comment records in the general bucket, Review and
\* Specific Review records in the review bucket exactly when their state is
\* CHANGES_REQUESTED, COMMENTED or APPROVED, any other record in none; the
\* records of a bucket keep their input order.
C9_Buckets ==
    Formatted =>
        /\ BlocksOf(prompt, "review_block") = BucketRecords(comments, "review")
        /\ BlocksOf(prompt, "inline_block") = BucketRecords(comments, "inline")
        /\ BlocksOf(prompt, "general_block") = BucketRecords(comments, "general")
        /\ Cardinality({k \in 1..Len(prompt) : prompt[k].seg \in BlockKinds})
              = Cardinality({i \in 1..Len(comments) : BucketOf(comments[i]) # "none"})

\* a review with an unrecognized state is left out, another record is rendered
C9_Witness ==
    /\ Formatted
    /\ \E i \in 1..Len(comments) :
          comments[i].type = "Review" /\ comments[i].state = Some("DISMISSED")
    /\ \E i \in 1..Len(comments) :
          comments[i].type = "Review" /\ comments[i].state = Some("APPROVED")
    /\ Len(BlocksOf(prompt, "review_block")) = 1

\* C10: clipboard and editor steps are best-effort: the output file is written
\* before any clipboard or editor step is attempted, and whatever fails in
\* those steps (clipboard missing or failing, file listing failing, editor
\* absent or exiting non-zero) the run reaches the summary and ends with exit
\* code 0 with the output file in place.
C10_BestEffort ==
    /\ \A k \in 1..Len(events) :
          events[k] \in AfterSaveEvents =>
              \E j \in 1..(k - 1) : events[j] = "write_output"
    /\ "write_output" \in Range(events) =>
          /\ Truthy(output_file)
          /\ output_file[1] \in files
          /\ pc = "exit" => (exit_code = Some(0) /\ events[Len(events)] = "summary")

----------------------------------------------------------------------------
(* main: the path of the output file *)

\* the default name: the PR number, one suffix per active filter (author,
\* then review id), and the .md extension
DefaultOutputPath ==
    COPILOT_PROMPT_PR \o pr_number[1]
    \o (IF FilterActive THEN <<"_">> \o args.user[1] ELSE << >>)
    \o (IF Truthy(review_id) THEN REVIEW_SUFFIX \o review_id[1] ELSE << >>)
    \o MD

\* the output file has been written
OutputWritten == "write_output" \in Range(events)

\* C11: without an output path option the prompt is written to the default
\* name (PR number, one suffix per active filter, .md); with an output path
\* option it is written to exactly that path, whatever filters are active.
C11_OutputPath ==
    OutputWritten =>
        /\ Truthy(output_file)
        /\ output_file[1] \in files
        /\ IF Truthy(args.output)
           THEN output_file[1] = args.output[1] /\ args.output[1] \in files
           ELSE output_file[1] = DefaultOutputPath

====
